---------------------------- MODULE Spec2Model ----------------------------
(***************************************************************************)
(* A model of pod-zclient (src/unnamed/part_000): the singleton            *)
(* ZookeeperClient, its run / connect / events / retry / fetch_config      *)
(* cycle, parse_loaded_data, decrypt_value and the module entry point      *)
(* run_zookeeper.                                                          *)
(*                                                                         *)
(* Strings are sequences of UTF-16 code units, buffers are sequences of    *)
(* bytes (0..255).  One action is one turn of the JavaScript event         *)
(* loop: an entry-point call or a callback of node-zookeeper-client,       *)
(* together with every microtask continuation it makes runnable.           *)
(***************************************************************************)
EXTENDS Integers, Sequences, FiniteSets, TLC

VARIABLES
    instance,               \* ZookeeperClient.instance (static, line 26)
    is_running_zookeeper,   \* module flag (line 288)
    rz,                     \* the run_zookeeper() calls made so far and their promises
    runs,                   \* the run() calls made so far
    fetches,                \* the fetch_config() calls made so far
    zk,                     \* what the node-zookeeper-client Client has been told
    env0,                   \* process.env when the module was loaded
    env,                    \* process.env now
    crypto,                 \* what the free identifier `crypto` (line 276) is bound to
    last                    \* the latest parse_loaded_data call

vars == <<instance, is_running_zookeeper, rz, runs, fetches, zk, env0, env, crypto, last>>

(***************************************************************************)
(* Bounds of the model.                                                    *)
(***************************************************************************)
MaxCalls == 2       \* run_zookeeper() invocations
MaxRuns == 4        \* run() calls in one behaviour
MaxFetches == 2     \* fetch_config() calls in one behaviour
MaxLines == 2       \* CRLF-separated lines of a generated payload

(***************************************************************************)
(* Characters, bytes and strings.  A string is the sequence of its UTF-16  *)
(* code units, a buffer the sequence of its bytes.                         *)
(***************************************************************************)
\* the characters string literals are written with here, with their codes
AsciiTable ==
    { <<9, "\t">>, <<10, "\n">>, <<12, "\f">>, <<13, "\r">>, <<32, " ">>, <<33, "!">>,
      <<34, "\"">>, <<35, "#">>, <<36, "$">>, <<37, "%">>, <<38, "&">>, <<39, "'">>,
      <<40, "(">>, <<41, ")">>, <<42, "*">>, <<43, "+">>, <<44, ",">>, <<45, "-">>,
      <<46, ".">>, <<47, "/">>, <<48, "0">>, <<49, "1">>, <<50, "2">>, <<51, "3">>,
      <<52, "4">>, <<53, "5">>, <<54, "6">>, <<55, "7">>, <<56, "8">>, <<57, "9">>,
      <<58, ":">>, <<59, ";">>, <<60, "<">>, <<61, "=">>, <<62, ">">>, <<63, "?">>,
      <<64, "@">>, <<65, "A">>, <<66, "B">>, <<67, "C">>, <<68, "D">>, <<69, "E">>,
      <<70, "F">>, <<71, "G">>, <<72, "H">>, <<73, "I">>, <<74, "J">>, <<75, "K">>,
      <<76, "L">>, <<77, "M">>, <<78, "N">>, <<79, "O">>, <<80, "P">>, <<81, "Q">>,
      <<82, "R">>, <<83, "S">>, <<84, "T">>, <<85, "U">>, <<86, "V">>, <<87, "W">>,
      <<88, "X">>, <<89, "Y">>, <<90, "Z">>, <<91, "[">>, <<92, "\\">>, <<93, "]">>,
      <<94, "^">>, <<95, "_">>, <<97, "a">>, <<98, "b">>, <<99, "c">>, <<100, "d">>,
      <<101, "e">>, <<102, "f">>, <<103, "g">>, <<104, "h">>, <<105, "i">>, <<106, "j">>,
      <<107, "k">>, <<108, "l">>, <<109, "m">>, <<110, "n">>, <<111, "o">>, <<112, "p">>,
      <<113, "q">>, <<114, "r">>, <<115, "s">>, <<116, "t">>, <<117, "u">>, <<118, "v">>,
      <<119, "w">>, <<120, "x">>, <<121, "y">>, <<122, "z">>, <<123, "{">>, <<124, "|">>,
      <<125, "}">>, <<126, "~">> }

CodeUnit == [c \in {p[2] : p \in AsciiTable} |-> (CHOOSE p \in AsciiTable : p[2] = c)[1]]

\* the string written as the tuple of its characters
Str(cs) == [i \in 1..Len(cs) |-> CodeUnit[cs[i]]] \o <<>>

\* U+FFFD, what an ill-formed byte sequence decodes to
Replacement == 65533

\* the sequences ss[lo], ..., ss[hi] joined into one
RECURSIVE Flatten(_, _, _)
Flatten(ss, lo, hi) ==
    IF lo > hi THEN <<>>
    ELSE IF lo = hi THEN ss[lo]
    ELSE Flatten(ss, lo, (lo + hi) \div 2) \o Flatten(ss, ((lo + hi) \div 2) + 1, hi)

\* the UTF-16 code units of the code point cp
CodeUnits(cp) ==
    IF cp > 65535
    THEN <<55296 + ((cp - 65536) \div 1024), 56320 + ((cp - 65536) % 1024)>>
    ELSE <<cp>>

\* the continuation bytes a UTF-8 lead byte b asks for (0: b is no lead
\* byte), and the values its first continuation byte may take
Needed(b) ==
    IF b \in 194..223 THEN 1
    ELSE IF b \in 224..239 THEN 2
    ELSE IF b \in 240..244 THEN 3
    ELSE 0

SecondRange(b) ==
    IF b = 224 THEN 160..191
    ELSE IF b = 237 THEN 128..159
    ELSE IF b = 240 THEN 144..191
    ELSE IF b = 244 THEN 128..143
    ELSE 128..191

\* how many of the bytes after bytes[i] continue the sequence it leads
Continued(bytes, i) ==
    IF \/ Needed(bytes[i]) = 0
       \/ i + 1 > Len(bytes)
       \/ bytes[i + 1] \notin SecondRange(bytes[i])
    THEN 0
    ELSE IF Needed(bytes[i]) = 1 \/ i + 2 > Len(bytes) \/ bytes[i + 2] \notin 128..191
    THEN 1
    ELSE IF Needed(bytes[i]) = 2 \/ i + 3 > Len(bytes) \/ bytes[i + 3] \notin 128..191
    THEN 2
    ELSE 3

\* bytes[i] continues a sequence led by one of the three bytes before it
InSequence(bytes, i) ==
    \E j \in (i - 3)..(i - 1) : j >= 1 /\ Continued(bytes, j) >= i - j

\* the code point of the complete sequence led by bytes[i]
CodePoint(bytes, i) ==
    IF Needed(bytes[i]) = 1
    THEN (bytes[i] - 192) * 64 + (bytes[i + 1] - 128)
    ELSE IF Needed(bytes[i]) = 2
    THEN (bytes[i] - 224) * 4096 + (bytes[i + 1] - 128) * 64 + (bytes[i + 2] - 128)
    ELSE (bytes[i] - 240) * 262144 + (bytes[i + 1] - 128) * 4096
           + (bytes[i + 2] - 128) * 64 + (bytes[i + 3] - 128)

\* what the UTF-8 decoder emits on reaching bytes[i]: nothing inside a
\* sequence, the byte itself for ASCII, the code point of a complete
\* sequence, and U+FFFD for a sequence cut short or a byte that leads none
Decoded(bytes, i) ==
    IF InSequence(bytes, i) THEN <<>>
    ELSE IF bytes[i] <= 127 THEN <<bytes[i]>>
    ELSE IF Needed(bytes[i]) > 0 /\ Continued(bytes, i) = Needed(bytes[i])
    THEN CodeUnits(CodePoint(bytes, i))
    ELSE <<Replacement>>

\* buffer.toString("utf8")
toStringUtf8(bytes) ==
    Flatten([i \in 1..Len(bytes) |-> Decoded(bytes, i)] \o <<>>, 1, Len(bytes))

\* the UTF-8 bytes of the code point cp
Utf8Bytes(cp) ==
    IF cp < 128 THEN <<cp>>
    ELSE IF cp < 2048 THEN <<192 + (cp \div 64), 128 + (cp % 64)>>
    ELSE IF cp < 65536
    THEN <<224 + (cp \div 4096), 128 + ((cp \div 64) % 64), 128 + (cp % 64)>>
    ELSE <<240 + (cp \div 262144), 128 + ((cp \div 4096) % 64),
           128 + ((cp \div 64) % 64), 128 + (cp % 64)>>

\* the bytes Buffer.from(text, "utf8") writes on reaching text[i]: a
\* surrogate pair is one code point, written at its first unit, and a lone
\* surrogate is written as U+FFFD
Encoded(text, i) ==
    IF text[i] \in 55296..56319 /\ i < Len(text) /\ text[i + 1] \in 56320..57343
    THEN Utf8Bytes(65536 + (text[i] - 55296) * 1024 + (text[i + 1] - 56320))
    ELSE IF text[i] \in 56320..57343 /\ i > 1 /\ text[i - 1] \in 55296..56319
    THEN <<>>
    ELSE IF text[i] \in 55296..57343 THEN Utf8Bytes(Replacement)
    ELSE Utf8Bytes(text[i])

\* Buffer.from(text, "utf8")
BufferFromUtf8(text) ==
    Flatten([i \in 1..Len(text) |-> Encoded(text, i)] \o <<>>, 1, Len(text))

CRLF == Str(<<"\r", "\n">>)
Marker == Str(<<"d", "e", "v", "E", "n", "c", ":">>)

\* WhiteSpace and LineTerminator of ECMAScript, what trim() removes
WhiteSpace ==
    {9, 10, 11, 12, 13, 32, 160, 5760, 8232, 8233, 8239, 8287, 12288, 65279}
      \cup 8192..8202

startsWith(s, p) == Len(s) >= Len(p) /\ SubSeq(s, 1, Len(p)) = p

\* String.prototype.indexOf, 1-based, 0 when `pat` does not occur
RECURSIVE indexFrom(_, _, _)
indexFrom(s, pat, i) ==
    IF i + Len(pat) - 1 > Len(s) THEN 0
    ELSE IF SubSeq(s, i, i + Len(pat) - 1) = pat THEN i
    ELSE indexFrom(s, pat, i + 1)

indexOf(s, pat) == indexFrom(s, pat, 1)

\* String.prototype.split with a non-empty separator
RECURSIVE split(_, _)
split(s, sep) ==
    LET i == indexOf(s, sep)
    IN IF i = 0
       THEN <<s>>
       ELSE <<SubSeq(s, 1, i - 1)>> \o split(SubSeq(s, i + Len(sep), Len(s)), sep)

\* String.prototype.trim
RECURSIVE trim(_)
trim(s) ==
    IF s = <<>> THEN s
    ELSE IF s[1] \in WhiteSpace THEN trim(Tail(s))
    ELSE IF s[Len(s)] \in WhiteSpace THEN trim(SubSeq(s, 1, Len(s) - 1))
    ELSE s

\* String.prototype.replace(pattern, replacement) with a string pattern:
\* the first occurrence only
replace(s, pat, rep) ==
    LET i == indexOf(s, pat)
    IN IF i = 0 THEN s
       ELSE SubSeq(s, 1, i - 1) \o rep \o SubSeq(s, i + Len(pat), Len(s))

\* String.prototype.slice(from, to) with 0-based non-negative bounds
slice(s, from, to) ==
    LET hi == IF to > Len(s) THEN Len(s) ELSE to
    IN IF from >= hi THEN <<>> ELSE SubSeq(s, from + 1, hi)

\* a filter that drops the empty lines only
SelectLines_keep_comments(lines) == SelectSeq(lines, LAMBDA item : item # <<>>)

\* the filter of line 246
SelectLines(lines) ==
    SelectSeq(lines, LAMBDA item : item # <<>> /\ ~startsWith(item, Str(<<"#">>)))


(***************************************************************************)
(* Hex buffers and the cipher behind crypto.createDecipheriv: AES-256      *)
(* (FIPS 197) in CBC mode with PKCS#7 padding.                             *)
(***************************************************************************)
HexDigits == Str(<<"0", "1", "2", "3", "4", "5", "6", "7",
                   "8", "9", "a", "b", "c", "d", "e", "f">>)

\* the value of a hex digit (either case), -1 for any other character: the
\* decoder reads the low byte of a code unit only
HexVal(c) ==
    IF (c % 256) \in 48..57 THEN (c % 256) - 48
    ELSE IF (c % 256) \in 97..102 THEN (c % 256) - 87
    ELSE IF (c % 256) \in 65..70 THEN (c % 256) - 55
    ELSE -1

\* Buffer.from(s, "hex"): whole pairs of hex digits, cut at the first pair
\* that is not one
RECURSIVE BufferFromHex(_)
BufferFromHex(s) ==
    IF Len(s) < 2 \/ HexVal(s[1]) < 0 \/ HexVal(s[2]) < 0
    THEN <<>>
    ELSE <<16 * HexVal(s[1]) + HexVal(s[2])>> \o BufferFromHex(SubSeq(s, 3, Len(s)))

BlockSize == 16     \* bytes of an AES block, and of the IV
KeyLength == 32     \* bytes of an aes-256 key
IvHexLength == 32   \* hex characters of the IV in a devEnc: value
Rounds == 14        \* rounds of AES with a 256-bit key

\* bitwise exclusive or of naturals
RECURSIVE bitxor(_, _)
bitxor(a, b) ==
    IF a = 0 THEN b
    ELSE IF b = 0 THEN a
    ELSE 2 * bitxor(a \div 2, b \div 2) + ((a + b) % 2)

Xor4 == [a \in 1..16 |-> [b \in 1..16 |-> bitxor(a - 1, b - 1)] \o <<>>] \o <<>>

\* exclusive or of two bytes
xor(a, b) ==
    16 * Xor4[(a \div 16) + 1][(b \div 16) + 1] + Xor4[(a % 16) + 1][(b % 16) + 1]

xorBlock(a, b) == [i \in 1..Len(a) |-> xor(a[i], b[i])] \o <<>>

\* multiplication by x in GF(2^8) modulo x^8 + x^4 + x^3 + x + 1
xtime(a) == IF a >= 128 THEN xor(2 * a - 256, 27) ELSE 2 * a

\* multiplication in GF(2^8)
RECURSIVE gmul(_, _)
gmul(a, k) ==
    IF k = 0 THEN 0
    ELSE xor(IF k % 2 = 1 THEN a ELSE 0, gmul(xtime(a), k \div 2))

\* the products the column mixes need, tabulated
GMul == [k \in {1, 2, 3, 9, 11, 13, 14} |-> [a \in 1..256 |-> gmul(a - 1, k)] \o <<>>]

\* the S-box of AES, and its inverse
SBox ==
    <<  99, 124, 119, 123, 242, 107, 111, 197,  48,   1, 103,  43, 254, 215, 171, 118,
       202, 130, 201, 125, 250,  89,  71, 240, 173, 212, 162, 175, 156, 164, 114, 192,
       183, 253, 147,  38,  54,  63, 247, 204,  52, 165, 229, 241, 113, 216,  49,  21,
         4, 199,  35, 195,  24, 150,   5, 154,   7,  18, 128, 226, 235,  39, 178, 117,
         9, 131,  44,  26,  27, 110,  90, 160,  82,  59, 214, 179,  41, 227,  47, 132,
        83, 209,   0, 237,  32, 252, 177,  91, 106, 203, 190,  57,  74,  76,  88, 207,
       208, 239, 170, 251,  67,  77,  51, 133,  69, 249,   2, 127,  80,  60, 159, 168,
        81, 163,  64, 143, 146, 157,  56, 245, 188, 182, 218,  33,  16, 255, 243, 210,
       205,  12,  19, 236,  95, 151,  68,  23, 196, 167, 126,  61, 100,  93,  25, 115,
        96, 129,  79, 220,  34,  42, 144, 136,  70, 238, 184,  20, 222,  94,  11, 219,
       224,  50,  58,  10,  73,   6,  36,  92, 194, 211, 172,  98, 145, 149, 228, 121,
       231, 200,  55, 109, 141, 213,  78, 169, 108,  86, 244, 234, 101, 122, 174,   8,
       186, 120,  37,  46,  28, 166, 180, 198, 232, 221, 116,  31,  75, 189, 139, 138,
       112,  62, 181, 102,  72,   3, 246,  14,  97,  53,  87, 185, 134, 193,  29, 158,
       225, 248, 152,  17, 105, 217, 142, 148, 155,  30, 135, 233, 206,  85,  40, 223,
       140, 161, 137,  13, 191, 230,  66, 104,  65, 153,  45,  15, 176,  84, 187,  22 >>

InvSBox == [v \in 1..256 |-> (CHOOSE a \in 1..256 : SBox[a] = v - 1) - 1] \o <<>>

SubBytes(s) == [i \in 1..Len(s) |-> SBox[s[i] + 1]] \o <<>>
InvSubBytes(s) == [i \in 1..Len(s) |-> InvSBox[s[i] + 1]] \o <<>>

\* the state holds byte (row r, column c) at index 4c + r + 1
ShiftRows(s) ==
    [i \in 1..BlockSize |-> s[(((i - 1) + 4 * ((i - 1) % 4)) % BlockSize) + 1]] \o <<>>
InvShiftRows(s) ==
    [i \in 1..BlockSize |-> s[(((i - 1) + 12 * ((i - 1) % 4)) % BlockSize) + 1]] \o <<>>

\* row r of column c of the state multiplied by the circulant matrix of coef
MixedByte(coef, s, c, r) ==
    xor(xor(GMul[coef[((4 - r) % 4) + 1]][s[4 * c + 1] + 1],
            GMul[coef[((5 - r) % 4) + 1]][s[4 * c + 2] + 1]),
        xor(GMul[coef[((6 - r) % 4) + 1]][s[4 * c + 3] + 1],
            GMul[coef[((7 - r) % 4) + 1]][s[4 * c + 4] + 1]))

MixWith(coef, s) ==
    [i \in 1..BlockSize |-> MixedByte(coef, s, (i - 1) \div 4, (i - 1) % 4)] \o <<>>

MixColumns(s) == MixWith(<<2, 3, 1, 1>>, s)
InvMixColumns(s) == MixWith(<<14, 11, 13, 9>>, s)

\* the key schedule: the words w[1..4 * (Rounds + 1)], grown from the eight
\* words of the key, rc being the next round constant
RECURSIVE ExpandKey(_, _)
ExpandKey(w, rc) ==
    IF Len(w) >= 4 * (Rounds + 1) THEN w
    ELSE ExpandKey(
           Append(w,
                  xorBlock(w[Len(w) - 7],
                           IF Len(w) % 8 = 0
                           THEN xorBlock(SubBytes(Tail(w[Len(w)]) \o <<w[Len(w)][1]>>),
                                         <<rc, 0, 0, 0>>)
                           ELSE IF Len(w) % 8 = 4 THEN SubBytes(w[Len(w)])
                           ELSE w[Len(w)])),
           IF Len(w) % 8 = 0 THEN xtime(rc) ELSE rc)

KeyExpansion(key) ==
    ExpandKey([i \in 1..8 |-> SubSeq(key, 4 * i - 3, 4 * i)] \o <<>>, 1)

RoundKey(w, r) == w[4 * r + 1] \o w[4 * r + 2] \o w[4 * r + 3] \o w[4 * r + 4]

\* the cipher: `states` holds the state after the initial round key and
\* after each round so far
RECURSIVE CipherRounds(_, _)
CipherRounds(w, states) ==
    IF Len(states) = Rounds
    THEN xorBlock(ShiftRows(SubBytes(states[Len(states)])), RoundKey(w, Rounds))
    ELSE CipherRounds(w,
           Append(states,
                  xorBlock(MixColumns(ShiftRows(SubBytes(states[Len(states)]))),
                           RoundKey(w, Len(states)))))

Cipher(w, p) == CipherRounds(w, <<xorBlock(p, RoundKey(w, 0))>>)

\* the inverse cipher, the round keys taken from the last to the first
RECURSIVE InvCipherRounds(_, _)
InvCipherRounds(w, states) ==
    IF Len(states) = Rounds
    THEN xorBlock(InvSubBytes(InvShiftRows(states[Len(states)])), RoundKey(w, 0))
    ELSE InvCipherRounds(w,
           Append(states,
                  InvMixColumns(xorBlock(InvSubBytes(InvShiftRows(states[Len(states)])),
                                         RoundKey(w, Rounds - Len(states))))))

InvCipher(w, c) == InvCipherRounds(w, <<xorBlock(c, RoundKey(w, Rounds))>>)

\* AES-256 on one block, and its inverse
BlockEncrypt(key, p) == Cipher(KeyExpansion(key), p)
BlockDecrypt(key, c) == InvCipher(KeyExpansion(key), c)

\* CBC chaining over whole blocks
RECURSIVE CbcDecrypt(_, _, _)
CbcDecrypt(key, prev, ct) ==
    IF ct = <<>> THEN <<>>
    ELSE xorBlock(BlockDecrypt(key, SubSeq(ct, 1, BlockSize)), prev)
           \o CbcDecrypt(key, SubSeq(ct, 1, BlockSize),
                         SubSeq(ct, BlockSize + 1, Len(ct)))

\* the bytes left of `plain` once its PKCS#7 padding is checked and removed
Unpad(plain) ==
    IF \/ plain[Len(plain)] < 1
       \/ plain[Len(plain)] > BlockSize
       \/ \E i \in (Len(plain) - plain[Len(plain)] + 1)..Len(plain) :
            plain[i] # plain[Len(plain)]
    THEN [threw |-> TRUE, text |-> <<>>]
    ELSE [threw |-> FALSE,
          text |-> toStringUtf8(SubSeq(plain, 1, Len(plain) - plain[Len(plain)]))]

\* createDecipheriv("aes-256-cbc", key, iv), update(encrypted) and
\* final("utf8"): the plaintext, or the exception any of the three raises
\* (key or IV of the wrong length, ciphertext that is no whole number of
\* blocks, wrong PKCS#7 padding)
Decipher(key, iv, encrypted) ==
    IF \/ Len(key) # KeyLength
       \/ Len(iv) # BlockSize
       \/ Len(encrypted) = 0
       \/ Len(encrypted) % BlockSize # 0
    THEN [threw |-> TRUE, text |-> <<>>]
    ELSE Unpad(CbcDecrypt(key, iv, encrypted))

\* The runtimes the module can be loaded in.  part_000 imports nothing named
\* crypto, so `crypto` on line 276 is the global of the host: node's crypto
\* module where the host has put it there ("NodeCrypto"), and otherwise the
\* Web Crypto object, which has no createDecipheriv, or nothing at all
\* ("WebCrypto": either way line 276 throws).
Runtimes == {"NodeCrypto", "WebCrypto"}

\* lines 269-280 where `crypto` is node's module, `text` being encryptedText
\* without its marker
Deciphered(text, encryption_secret_key) ==
    Decipher(BufferFromHex(encryption_secret_key),
             BufferFromHex(slice(text, 0, IvHexLength)),
             BufferFromHex(slice(text, IvHexLength, Len(text))))

\* the entry of `table` under `key`, or `other` where it has none
Lookup(table, key, other) == IF key \in DOMAIN table THEN table[key] ELSE other

\* keys, an IV, and the producer's side of the cipher
KeyHex == [i \in 1..(2 * KeyLength) |-> HexDigits[((i * 7) % 16) + 1]]
OtherKeyHex == [i \in 1..(2 * KeyLength) |-> HexDigits[((i * 3 + 1) % 16) + 1]]
IvHex == [i \in 1..IvHexLength |-> HexDigits[((i * 5 + 3) % 16) + 1]]

Pkcs7(bytes) ==
    LET n == BlockSize - (Len(bytes) % BlockSize)
    IN bytes \o [i \in 1..n |-> n]

\* CBC chaining over whole blocks: block `c` of the ciphertext, then the rest
RECURSIVE CbcEncrypt(_, _, _)
CbcChain(key, c, rest) == c \o CbcEncrypt(key, c, rest)
CbcEncrypt(key, prev, pt) ==
    IF pt = <<>> THEN <<>>
    ELSE CbcChain(key, BlockEncrypt(key, xorBlock(SubSeq(pt, 1, BlockSize), prev)),
                  SubSeq(pt, BlockSize + 1, Len(pt)))

RECURSIVE HexEncode(_)
HexEncode(bytes) ==
    IF bytes = <<>> THEN <<>>
    ELSE <<HexDigits[(bytes[1] \div 16) + 1], HexDigits[(bytes[1] % 16) + 1]>>
           \o HexEncode(Tail(bytes))

\* the devEnc: value a producer holding `keyHex` writes for `plain`
Encrypt(plain, keyHex, ivHex) ==
    Marker \o ivHex
      \o HexEncode(CbcEncrypt(BufferFromHex(keyHex), BufferFromHex(ivHex),
                              Pkcs7(BufferFromUtf8(plain))))

Plain1 == Str(<<"x", "=", "1">>)
Secret1 == Encrypt(Plain1, KeyHex, IvHex)

\* the devEnc: values of the payloads, deciphered once under each key
DecipheredOf ==
    [x \in {replace(Secret1, Marker, <<>>)} \X {KeyHex, OtherKeyHex}
       |-> Deciphered(x[1], x[2])] @@ <<>>

\* decrypt_value (lines 268-281): the decrypted text, or the exception raised
decrypt_value(encryptedText, encryption_secret_key, runtime) ==
    IF runtime # "NodeCrypto"
    THEN [threw |-> TRUE, text |-> <<>>]     \* TypeError or ReferenceError
    ELSE Lookup(DecipheredOf,
                <<replace(encryptedText, Marker, <<>>), encryption_secret_key>>,
                Deciphered(replace(encryptedText, Marker, <<>>), encryption_secret_key))

(***************************************************************************)
(* process.env and parse_loaded_data.                                      *)
(***************************************************************************)
\* a string as the C string the host passes to setenv(3): cut at its first NUL
CString(s) ==
    IF \A i \in 1..Len(s) : s[i] # 0 THEN s
    ELSE SubSeq(s, 1, (CHOOSE i \in 1..Len(s) :
                         s[i] = 0 /\ \A j \in 1..(i - 1) : s[j] # 0) - 1)

\* what process.env is after `name` is set to `value` (both C strings):
\* setenv(3) rejects the empty name, and node drops the error
PutEnv(e, name, value) ==
    IF name = <<>> THEN e
    ELSE [k \in DOMAIN e \cup {name} |-> IF k = name THEN value ELSE e[k]]

\* process.env[key] = value
SetEnv(e, key, value) == PutEnv(e, CString(key), CString(value))

\* const [key, value] = item.split("=").map(item => item.trim())
KeyValue(item) ==
    LET parts == split(item, Str(<<"=">>))
    IN [key |-> trim(parts[1]),
        hasValue |-> Len(parts) >= 2,
        value |-> IF Len(parts) >= 2 THEN trim(parts[2]) ELSE <<>>]

\* the forEach of lines 248-251 from line `i` on: the assignments
\* process.env[key] = value it makes, in order, up to the first line that
\* throws (`at`, 0: none does)
RECURSIVE forEach(_, _, _, _)
forEach(lines, i, secret, runtime) ==
    IF i > Len(lines) THEN [writes |-> <<>>, at |-> 0]
    ELSE LET kv == KeyValue(lines[i])
             d == decrypt_value(kv.value, secret, runtime)
             encrypted == kv.hasValue /\ startsWith(kv.value, Marker)
         IN IF ~kv.hasValue \/ (encrypted /\ d.threw)
            THEN [writes |-> <<>>, at |-> i]    \* undefined.startsWith, or decrypt_value
            ELSE LET rest == forEach(lines, i + 1, secret, runtime)
                     value == IF encrypted THEN d.text ELSE kv.value
                 IN [rest EXCEPT !.writes = <<[key |-> kv.key, value |-> value]>> \o @]

\* the data lines of a payload (lines 242-246)
DataLines(data) == SelectLines(split(toStringUtf8(data), CRLF))

\* lines 242-251 for a payload: `data` is a buffer, given as
\* [some |-> TRUE, bytes |-> ...], or undefined ([some |-> FALSE]), on which
\* data.toString throws
Assignments(data, secret, runtime) ==
    IF ~data.some
    THEN [writes |-> <<>>, at |-> 0, threw |-> TRUE]
    ELSE LET r == forEach(DataLines(data.bytes), 1, secret, runtime)
         IN [writes |-> r.writes, at |-> r.at, threw |-> r.at # 0]

RECURSIVE SetAll(_, _)
SetAll(e, writes) ==
    IF writes = <<>> THEN e
    ELSE SetAll(SetEnv(e, writes[1].key, writes[1].value), Tail(writes))

(***************************************************************************)
(* Fixtures: keys, an encryptor matching the decipher, configurations and  *)
(* payloads.                                                               *)
(***************************************************************************)
Cfg1 == [connectionString |-> "zk1:2181", username |-> "u1", password |-> "p1",
         path |-> "/cfg1", encryptionSecretKey |-> KeyHex]
\* another ensemble, other credentials, another key, and a path that is no
\* absolute node path: client.getData throws on it
Cfg2 == [connectionString |-> "zk2:2181", username |-> "u2", password |-> "p2",
         path |-> "cfg2", encryptionSecretKey |-> OtherKeyHex]
\* an empty connection string: zookeeper.createClient throws on it
CfgNoServer == [Cfg1 EXCEPT !.connectionString = ""]
Configs == {Cfg1, Cfg2, CfgNoServer}

CreateClientThrows(connectionString) == connectionString = ""
GetDataThrows(path) == path \notin {"/cfg1"}

LinePool ==
    { Str(<<"A", "=", "1">>),
      Str(<<"B", "=", "2">>),
      <<>>,
      Str(<<"#", "c">>),
      Str(<<"#", "A", "=", "9">>),
      Str(<<"A", "=", "x", "=", "y">>),
      Str(<<" ", "K", " ", "=", " ", "a", "b", "\t">>),
      Str(<<"B">>),
      Str(<<"=", "2">>),
      Str(<<"S", "=">>) \o Secret1 }

RECURSIVE Join(_)
Join(lines) ==
    IF lines = <<>> THEN <<>>
    ELSE IF Len(lines) = 1 THEN lines[1]
    ELSE lines[1] \o CRLF \o Join(Tail(lines))

Some(text) == [some |-> TRUE, bytes |-> BufferFromUtf8(text)]
NoData == [some |-> FALSE, bytes |-> <<>>]

\* the scenario payload "A=1\r\n#comment\r\n\r\nB=2\r\n"
ScenarioPayload ==
    Join(<<Str(<<"A", "=", "1">>), Str(<<"#", "c">>), <<>>, Str(<<"B", "=", "2">>), <<>>>>)

\* every payload of at most MaxLines pool lines, the scenario, and no data
ParseInputs ==
    { Some(Join(ls)) : ls \in UNION { [1..n -> LinePool] : n \in 0..MaxLines } }
      \cup {Some(ScenarioPayload), NoData}

\* a payload whose third line has no `=`: parse_loaded_data throws on it
\* (on its second line where decrypt_value throws)
BrokenPayload ==
    Some(Join(<<Str(<<"A", "=", "x", "=", "y">>), Str(<<"S", "=">>) \o Secret1, Str(<<"K">>)>>))

\* what the node returns to the reads of the protocol model
NodePayloads == {Some(ScenarioPayload), BrokenPayload}

EmptyEnv == [k \in {} |-> <<>>]
InitialEnvs == {EmptyEnv, SetEnv(SetEnv(EmptyEnv, Str(<<"A">>), Str(<<"0">>)), Str(<<"B">>), Str(<<"0">>))}

\* Assignments of every payload of the model, computed once
AssignmentsOf ==
    [x \in (ParseInputs \cup NodePayloads) \X {KeyHex, OtherKeyHex} \X Runtimes
       |-> Assignments(x[1], x[2], x[3])] @@ <<>>

\* process.env = e after the assignments `a`, and whether the promise of
\* parse_loaded_data resolved (line 253)
Parsed(e, a) == [env |-> SetAll(e, a.writes), resolved |-> ~a.threw, at |-> a.at]

parse_loaded_data_reset(e, data, secret, runtime) ==
    Parsed(EmptyEnv, Assignments(data, secret, runtime))

\* parse_loaded_data (lines 239-263) with process.env = e:
\*   env      process.env afterwards
\*   resolved whether the returned promise resolves (it does not once an
\*            exception reached the catch of line 254)
parse_loaded_data(e, data, secret, runtime) ==
    Parsed(e, Lookup(AssignmentsOf, <<data, secret, runtime>>,
                     Assignments(data, secret, runtime)))

(***************************************************************************)
(* The client.  The operators below work on a record `w` of the state the  *)
(* current turn of the event loop has produced so far, with fields rz,     *)
(* runs, fetches and zk as the variables of the same names.                *)
(*                                                                         *)
(*   rz[i]       the i-th run_zookeeper() call: its config, whether an     *)
(*               earlier call was still pending when it was made (busy),   *)
(*               the object its `new` yielded (obj, 0: none), the run() it *)
(*               awaits (run, 0: none) and the state of its promise        *)
(*   runs[r]     the r-th run() call: where it is (pc: "connect", "fetch", *)
(*               "done" once resolved, "hung"), who called it (origin:     *)
(*               "run_zookeeper", or the cause of the retry() that did),   *)
(*               for which call or fetch (src), the handle its connect()   *)
(*               was called on (client) and the close() calls before that  *)
(*               (closes)                                                  *)
(*   fetches[f]  the f-th fetch_config() call: the run awaiting it (run,   *)
(*               0: the watch callback), its getData (read: "pending",     *)
(*               "ok", "error", or "threw"), the handle it was called on   *)
(*               (client) after how many close() calls (cycle), whether    *)
(*               its promise                                               *)
(*               resolved, its watch ("none", "armed", or the event it     *)
(*               delivered) and the run() its retry() started (retryRun)   *)
(*   zk          the Client: createClient calls (sessions), addAuthInfo    *)
(*               calls (auth), connection state, the runs whose            *)
(*               once("connected") listener is registered (once), the      *)
(*               events() calls (handlers: one disconnected, expired and   *)
(*               error listener each), the "expired" events emitted, the   *)
(*               close() calls (closes), the handles closed (closed), the  *)
(*               closed handles connect() was called on again (reconnects) *)
(*               and the latest session event emitted                      *)
(***************************************************************************)
NoInstance ==
    [exists |-> FALSE, id |-> 0, connection_string |-> "", username |-> "",
     password |-> "", path |-> "", encryption_secret_key |-> <<>>, client |-> 0]

World == [rz |-> rz, runs |-> runs, fetches |-> fetches, zk |-> zk]

\* lines 46-59 of the constructor, run by the `call`-th construction on the
\* object it allocated (objects are named by the construction that
\* allocated them).  `threw`: zookeeper.createClient raised, after the
\* object was registered and its fields were set.
initialize(w, config, call) ==
    LET this == [exists |-> TRUE, id |-> call,
                 connection_string |-> config.connectionString,
                 username |-> config.username,
                 password |-> config.password,
                 path |-> config.path,
                 encryption_secret_key |-> config.encryptionSecretKey,
                 client |-> 0]
    IN IF CreateClientThrows(this.connection_string)
       THEN [instance |-> this, w |-> w, obj |-> 0, threw |-> TRUE]
       ELSE [instance |-> [this EXCEPT !.client = w.zk.sessions + 1],
             w |-> [w EXCEPT !.zk.sessions = @ + 1,
                             !.zk.auth = Append(@, <<this.username, ":",
                                                     this.password>>)],
             obj |-> this.id,
             threw |-> FALSE]

\* a constructor without the singleton check of lines 42-44
constructor_always_new(inst, w, config, call) == initialize(w, config, call)

\* new ZookeeperClient(config) (lines 39-60), evaluated as the `call`-th
\* construction: the static instance and the client afterwards, and the
\* object the expression yields (obj, 0 when it threw)
constructor(inst, w, config, call) ==
    IF inst.exists
    THEN [instance |-> inst, w |-> w, obj |-> inst.id, threw |-> FALSE]
    ELSE initialize(w, config, call)

\* this.client.close()
close(w, inst) ==
    [w EXCEPT !.zk.state = "closed", !.zk.closes = @ + 1,
              !.zk.closed = @ \cup {inst.client}]

\* connect() (lines 94-120) for run `r`, up to its suspension
connect(w, inst, r) ==
    [w EXCEPT !.zk.once = Append(@, r), !.zk.state = "connecting",
              !.zk.reconnects = IF inst.client \in w.zk.closed
                                THEN @ \cup {inst.client} ELSE @]

\* run() (lines 65-89) up to its first suspension.  With no session
\* (this.client undefined) connect() throws inside its try, its catch calls
\* retry(), whose executor throws on this.client.close(): nothing resolves.
run(w, inst, origin, src) ==
    LET r == Len(w.runs) + 1
    IN IF inst.client = 0
       THEN [w EXCEPT !.runs = Append(@, [pc |-> "hung", origin |-> origin, src |-> src,
                                          client |-> 0, closes |-> w.zk.closes])]
       ELSE connect([w EXCEPT !.runs = Append(@, [pc |-> "connect", origin |-> origin,
                                                  src |-> src, client |-> inst.client,
                                                  closes |-> w.zk.closes])],
                    inst, r)

\* a retry that does not close the session first
retry_no_close(w, inst, origin, src) == run(w, inst, origin, src)

\* retry() (lines 164-170) up to its suspension
retry(w, inst, origin, src) == run(close(w, inst), inst, origin, src)

\* events() (lines 125-159): one more disconnected, expired and error handler
events(w) == [w EXCEPT !.zk.handlers = @ + 1]

\* fetch_config() (lines 175-234) up to its suspension, awaited by run `r`
\* (0: by the watch callback)
fetch_config(w, inst, r) ==
    LET f == Len(w.fetches) + 1
        call == [run |-> r, read |-> "pending", resolved |-> FALSE,
                 watch |-> "none", retryRun |-> 0, client |-> inst.client,
                 cycle |-> w.zk.closes]
    IN IF GetDataThrows(inst.path)
       THEN retry([w EXCEPT !.fetches = Append(@, [call EXCEPT !.read = "threw",
                                                   !.retryRun = Len(w.runs) + 1])],
                  inst, "fetch_config", f)
       ELSE [w EXCEPT !.fetches = Append(@, call)]

\* run() from the resolution of connect() to its next suspension (lines 72-75)
run_connected(w, inst, r) ==
    fetch_config(events([w EXCEPT !.runs[r].pc = "fetch"]), inst, r)

\* run() from the resolution of fetch_config() on (line 77), and what
\* awaits it: run_zookeeper's resolve() (line 296) or retry's (line 168)
run_fetched(w, r) ==
    LET w1 == [w EXCEPT !.runs[r].pc = "done"]
    IN IF w.runs[r].origin = "run_zookeeper"
       THEN [w1 EXCEPT !.rz[w.runs[r].src].promise = "resolved"]
       ELSE w1

\* the "connected" listeners of connect() (lines 97-106), then the runs
\* they resume
RECURSIVE resume(_, _, _)
resume(w, inst, waiting) ==
    IF waiting = <<>> THEN w
    ELSE resume(run_connected(w, inst, waiting[1]), inst, Tail(waiting))

\* the "expired" listeners (lines 137-146), one per events() call so far
RECURSIVE expired(_, _, _)
expired(w, inst, k) ==
    IF k = 0 THEN w
    ELSE expired(retry(w, inst, "expired", 0), inst, k - 1)

\* a watch callback that only logs
watcher_log_only(w, inst, event) == w

\* a watch callback that reads again whatever the event
watcher_refetch_always(w, inst, event) == fetch_config(w, inst, 0)

\* the watch callback of getData (lines 180-191)
watcher(w, inst, event) ==
    IF event.type = 3 /\ event.name = "NODE_DATA_CHANGED"
    THEN fetch_config(w, inst, 0)
    ELSE w

\* a completion callback that logs the error and returns
completion_no_retry(w, inst, f, error, parsed) ==
    IF error
    THEN [w EXCEPT !.fetches[f].read = "error"]
    ELSE LET w1 == [w EXCEPT !.fetches[f].read = "ok",
                             !.fetches[f].watch = "armed",
                             !.fetches[f].resolved = parsed]
         IN IF parsed /\ w.fetches[f].run # 0
            THEN run_fetched(w1, w.fetches[f].run)
            ELSE w1

\* the completion callback as written, for the variants below
completion_retry_on_error(w, inst, f, error, parsed) ==
    IF error
    THEN retry([w EXCEPT !.fetches[f].read = "error",
                         !.fetches[f].retryRun = Len(w.runs) + 1],
               inst, "getData", f)
    ELSE completion_no_retry(w, inst, f, error, parsed)

\* a completion callback with a retry budget of one
completion_retry_budget(w, inst, f, error, parsed) ==
    IF error /\ \E r \in 1..Len(w.runs) : w.runs[r].origin = "getData"
    THEN [w EXCEPT !.fetches[f].read = "error"]
    ELSE completion_no_retry(
           IF error
           THEN retry([w EXCEPT !.fetches[f].retryRun = Len(w.runs) + 1],
                      inst, "getData", f)
           ELSE w,
           inst, f, error, parsed)

\* a completion callback that drops what arrives for a session closed since
\* its getData was issued
completion_ignores_stale(w, inst, f, error, parsed) ==
    IF w.zk.closes > w.fetches[f].cycle
    THEN [w EXCEPT !.fetches[f].read = IF error THEN "error" ELSE "ok"]
    ELSE completion_retry_on_error(w, inst, f, error, parsed)

\* a completion callback whose parse failure is handled like a read failure
completion_retry_on_parse_failure(w, inst, f, error, parsed) ==
    IF error \/ ~parsed
    THEN retry([w EXCEPT !.fetches[f].read = IF error THEN "error" ELSE "ok",
                         !.fetches[f].retryRun = Len(w.runs) + 1],
               inst, "getData", f)
    ELSE LET w1 == [w EXCEPT !.fetches[f].read = "ok",
                             !.fetches[f].watch = "armed",
                             !.fetches[f].resolved = parsed]
         IN IF w.fetches[f].run # 0
            THEN run_fetched(w1, w.fetches[f].run)
            ELSE w1

\* the completion callback of fetch `f` (lines 192-221): `error` as given by
\* the client, `parsed` whether parse_loaded_data resolved
completion(w, inst, f, error, parsed) ==
    IF error
    THEN retry([w EXCEPT !.fetches[f].read = "error",
                         !.fetches[f].retryRun = Len(w.runs) + 1],
               inst, "getData", f)
    ELSE LET w1 == [w EXCEPT !.fetches[f].read = "ok",
                             !.fetches[f].watch = "armed",
                             !.fetches[f].resolved = parsed]
         IN IF parsed /\ w.fetches[f].run # 0
            THEN run_fetched(w1, w.fetches[f].run)
            ELSE w1

\* the events a data watch delivers
WatchEvents ==
    { [type |-> 2, name |-> "NODE_DELETED"],
      [type |-> 3, name |-> "NODE_DATA_CHANGED"] }

(***************************************************************************)
(* State, and one action per turn of the event loop.                       *)
(***************************************************************************)
NoZk ==
    [sessions |-> 0, auth |-> <<>>, state |-> "none", once |-> <<>>,
     handlers |-> 0, expired |-> 0, closes |-> 0, closed |-> {},
     reconnects |-> {}, emitted |-> "none"]

\* `last`: the latest parse_loaded_data call: its payload and whether its
\* promise resolved
NoParse == [kind |-> "none", data |-> NoData, resolved |-> FALSE]

Commit(w) ==
    /\ Len(w.runs) <= MaxRuns
    /\ Len(w.fetches) <= MaxFetches
    /\ rz' = w.rz
    /\ runs' = w.runs
    /\ fetches' = w.fetches
    /\ zk' = w.zk

Init ==
    /\ instance = NoInstance
    /\ is_running_zookeeper = FALSE
    /\ rz = <<>>
    /\ runs = <<>>
    /\ fetches = <<>>
    /\ zk = NoZk
    /\ env0 = EmptyEnv
    /\ env = env0
    /\ crypto \in Runtimes
    /\ last = NoParse

\* run_zookeeper(config) (lines 290-310) up to its suspension
run_zookeeper(config) ==
    /\ Len(rz) < MaxCalls
    /\ LET call == Len(rz) + 1
           entry == [config |-> config,
                     busy |-> \E i \in 1..Len(rz) : rz[i].promise = "pending",
                     obj |-> 0, run |-> 0, promise |-> "pending"]
       IN IF ~is_running_zookeeper
          THEN LET c == constructor(instance, [World EXCEPT !.rz = Append(@, entry)],
                                    config, call)
               IN /\ instance' = c.instance
                  /\ IF c.threw
                     THEN Commit([c.w EXCEPT !.rz[call].promise = "rejected"])
                     ELSE Commit(run([c.w EXCEPT !.rz[call].obj = c.obj,
                                                 !.rz[call].run = Len(runs) + 1],
                                     c.instance, "run_zookeeper", call))
          ELSE /\ instance' = instance
               /\ Commit([World EXCEPT
                            !.rz = Append(@, [entry EXCEPT !.promise = "resolved"])])
    /\ UNCHANGED <<is_running_zookeeper, env0, env, crypto, last>>

\* the client emits "connected"
OnConnected ==
    /\ zk.state \in {"connecting", "disconnected"}
    /\ Commit(resume([World EXCEPT !.zk.state = "connected", !.zk.once = <<>>,
                                      !.zk.emitted = "connected"],
                     instance, zk.once))
    /\ UNCHANGED <<instance, is_running_zookeeper, env0, env, crypto, last>>

\* the client emits "disconnected" (lines 127-134)
OnDisconnected ==
    /\ zk.state = "connected"
    /\ Commit([World EXCEPT !.zk.state = "disconnected", !.zk.emitted = "disconnected"])
    /\ UNCHANGED <<instance, is_running_zookeeper, env0, env, crypto, last>>

\* an "error" listener that rebuilds the session
OnError_retries ==
    /\ zk.handlers >= 1
    /\ Commit(retry([World EXCEPT !.zk.emitted = "error"], instance, "error", 0))
    /\ UNCHANGED <<instance, is_running_zookeeper, env0, env, crypto, last>>

\* the client emits "error" (lines 150-157)
OnError ==
    /\ zk.handlers >= 1
    /\ Commit([World EXCEPT !.zk.emitted = "error"])
    /\ UNCHANGED <<instance, is_running_zookeeper, env0, env, crypto, last>>

\* the client emits "expired" (lines 137-146)
OnExpired ==
    /\ zk.state \in {"connected", "disconnected"}
    /\ Commit(expired([World EXCEPT !.zk.state = "expired", !.zk.expired = @ + 1,
                                       !.zk.emitted = "expired"],
                      instance, zk.handlers))
    /\ UNCHANGED <<instance, is_running_zookeeper, env0, env, crypto, last>>

\* getData of fetch `f` completes with an error (lines 193-202)
OnGetDataError(f) ==
    /\ fetches[f].read = "pending"
    /\ Commit(completion(World, instance, f, TRUE, FALSE))
    /\ UNCHANGED <<instance, is_running_zookeeper, env0, env, crypto, last>>

\* the state after a parse_loaded_data call of kind `kind` on `data` with
\* outcome `pr`
SetParsed(kind, data, pr) ==
    /\ env' = pr.env
    /\ last' = [kind |-> kind, data |-> data, resolved |-> pr.resolved]

\* getData of fetch `f` completes with `data` (lines 204-220)
OnGetData(f, data) ==
    /\ fetches[f].read = "pending"
    /\ SetParsed("getData", data,
                 parse_loaded_data(env, data, instance.encryption_secret_key, crypto))
    /\ Commit(completion(World, instance, f, FALSE, last'.resolved))
    /\ UNCHANGED <<instance, is_running_zookeeper, env0, crypto>>

\* the watch registered by fetch `f` fires with `event` (lines 180-191)
OnWatch(f, event) ==
    /\ fetches[f].watch = "armed"
    /\ Commit(watcher([World EXCEPT !.fetches[f].watch = event.name], instance, event))
    /\ UNCHANGED <<instance, is_running_zookeeper, env0, env, crypto, last>>

Next ==
    \/ \E config \in Configs : run_zookeeper(config)
    \/ OnConnected
    \/ OnDisconnected
    \/ OnError
    \/ OnExpired
    \/ \E f \in 1..Len(fetches) : OnGetDataError(f)
    \/ \E f \in 1..Len(fetches), data \in NodePayloads : OnGetData(f, data)
    \/ \E f \in 1..Len(fetches), event \in WatchEvents : OnWatch(f, event)

Spec == Init /\ [][Next]_vars

\* Every turn of the event loop but the delivery of "connected": the calls
\* of the entry point, the other session events and the callbacks of getData.
NextUnconfirmed ==
    \/ \E config \in Configs : run_zookeeper(config)
    \/ OnDisconnected
    \/ OnError
    \/ OnExpired
    \/ \E f \in 1..Len(fetches) : OnGetDataError(f)
    \/ \E f \in 1..Len(fetches), data \in NodePayloads : OnGetData(f, data)
    \/ \E f \in 1..Len(fetches), event \in WatchEvents : OnWatch(f, event)

\* The program with an ensemble that may never confirm a connection:
\* whatever else can happen does happen, "connected" need not.
SpecUnconfirmed == Init /\ [][Next]_vars /\ WF_vars(NextUnconfirmed)

(***************************************************************************)
(* parse_loaded_data on its own: a constructed client, any runtime, any    *)
(* payload of ParseInputs, a process.env with or without earlier entries.  *)
(***************************************************************************)
Constructed(config) ==
    constructor(NoInstance,
                [rz |-> <<>>, runs |-> <<>>, fetches |-> <<>>, zk |-> NoZk],
                config, 1)

InitParse ==
    /\ \E config \in {Cfg1, Cfg2} :
         /\ instance = Constructed(config).instance
         /\ zk = Constructed(config).w.zk
    /\ is_running_zookeeper = FALSE
    /\ rz = <<>>
    /\ runs = <<>>
    /\ fetches = <<>>
    /\ env0 \in InitialEnvs
    /\ env = env0
    /\ crypto \in Runtimes
    /\ \E data \in ParseInputs : last = [NoParse EXCEPT !.kind = "input", !.data = data]

ParseStep ==
    /\ last.kind = "input"
    /\ SetParsed("parse", last.data,
                 parse_loaded_data(env, last.data, instance.encryption_secret_key, crypto))
    /\ UNCHANGED <<instance, is_running_zookeeper, rz, runs, fetches, zk, env0, crypto>>

NextParse == ParseStep

SpecParse == InitParse /\ [][NextParse]_vars

(***************************************************************************)
(* The claims.  What a claim says about a payload is read off the payload  *)
(* text here, not off the model of the parser.                             *)
(***************************************************************************)
LeftOfEq(line) ==
    LET i == indexOf(line, Str(<<"=">>))
    IN IF i = 0 THEN line ELSE SubSeq(line, 1, i - 1)

RightOfEq(line) == SubSeq(line, indexOf(line, Str(<<"=">>)) + 1, Len(line))

\* the CRLF-delimited lines of a payload that are neither empty nor comments
PayloadDataLines(data) ==
    IF ~data.some THEN {}
    ELSE LET lines == split(toStringUtf8(data.bytes), CRLF)
         IN { lines[i] : i \in { j \in 1..Len(lines) :
                                   lines[j] # <<>> /\ lines[j][1] # CodeUnit["#"] } }

PayloadKeys(data) == { trim(LeftOfEq(line)) : line \in PayloadDataLines(data) }

\* every data line is KEY=VALUE, no key occurs on two different lines, and
\* no line holds the devEnc: marker
PlainPayload(data) ==
    /\ data.some
    /\ \A line \in PayloadDataLines(data) :
         /\ indexOf(line, Str(<<"=">>)) # 0
         /\ indexOf(line, Marker) = 0
    /\ \A l1, l2 \in PayloadDataLines(data) :
         l1 # l2 => trim(LeftOfEq(l1)) # trim(LeftOfEq(l2))

Key(c) == Str(<<c>>)

\* C1: after any constructions with any configurations there is one
\* instance, the object of the first construction: every later construction
\* yields it, its connection string, credentials, path and key are those of
\* the first configuration, and no construction after the first creates a
\* session or adds auth info.
C1_Singleton ==
    Len(rz) >= 1 =>
        /\ instance.exists
        /\ instance.id = 1
        /\ \A i \in 2..Len(rz) : rz[i].obj = 1
        /\ instance.connection_string = rz[1].config.connectionString
        /\ instance.username = rz[1].config.username
        /\ instance.password = rz[1].config.password
        /\ instance.path = rz[1].config.path
        /\ instance.encryption_secret_key = rz[1].config.encryptionSecretKey
        /\ zk.sessions = (IF rz[1].obj = 1 THEN 1 ELSE 0)
        /\ zk.auth = (IF rz[1].obj = 1
                      THEN <<<<rz[1].config.username, ":", rz[1].config.password>>>>
                      ELSE <<>>)

\* a second construction with another configuration has returned
C1_Witness ==
    /\ Len(rz) = 2
    /\ rz[1].config = Cfg1
    /\ rz[2].config = Cfg2
    /\ rz[2].obj = 1
    /\ instance.path = Cfg1.path
    /\ zk.sessions = 1

\* C2 (as claimed): once the retry cycle started by a failed read of a run()
\* has completed (the run() it started has resolved), the promise of that
\* original run() is resolved, and so is that of the run_zookeeper() call
\* awaiting it.
C2_RunResolvesAfterRetry ==
    \A f \in 1..Len(fetches) :
        LET r == fetches[f].run
            again == fetches[f].retryRun
        IN (fetches[f].read = "error" /\ r # 0 /\ again # 0 /\ runs[again].pc = "done")
           => /\ runs[r].pc = "done"
              /\ runs[r].origin = "run_zookeeper"
                   => rz[runs[r].src].promise = "resolved"

\* C3 (as claimed): a run_zookeeper() invocation made while an earlier
\* invocation is still pending resolves at once, without constructing a
\* client and without calling run().
C3_BusyCallIsNoOp ==
    \A i \in 1..Len(rz) :
        rz[i].busy => rz[i].promise = "resolved" /\ rz[i].obj = 0 /\ rz[i].run = 0

\* C4 (as claimed): for a payload without devEnc: marker, the environment
\* value under each data line's key is the whole text right of the line's
\* first `=`, trimmed, also when that text holds further `=`.
C4_ValueIsWholeRightHandSide ==
    (last.kind = "parse" /\ PlainPayload(last.data))
    => \A line \in PayloadDataLines(last.data) :
         /\ trim(LeftOfEq(line)) \in DOMAIN env
         /\ env[trim(LeftOfEq(line))] = trim(RightOfEq(line))

\* C5: parse_loaded_data changes process.env only at keys of the payload's
\* data lines: empty lines and lines beginning with `#` write nothing.
C5_CommentsAndBlanksWriteNothing ==
    last.kind = "parse" =>
        \A k \in DOMAIN env :
            (k \notin DOMAIN env0 \/ env[k] # env0[k]) => k \in PayloadKeys(last.data)

\* a payload with a comment line `#A=9` and a data line was parsed, and A
\* kept its earlier value
C5_Witness ==
    /\ last.kind = "parse"
    /\ last.data = Some(Join(<<Str(<<"#", "A", "=", "9">>), Str(<<"B", "=", "2">>)>>))
    /\ last.resolved
    /\ Key("A") \in DOMAIN env0
    /\ env0[Key("A")] = Str(<<"0">>)
    /\ env[Key("A")] = Str(<<"0">>)
    /\ env[Key("B")] = Str(<<"2">>)

\* C6 (as claimed): a value devEnc:<IV><ciphertext> produced by encrypting
\* a plaintext under the configured key is stored as that plaintext.
C6_DecryptRoundTrip ==
    ( /\ last.kind = "parse"
      /\ last.data = Some(Str(<<"S", "=">>) \o Encrypt(Plain1, instance.encryption_secret_key,
                                                  IvHex)) )
    => /\ Key("S") \in DOMAIN env
       /\ env[Key("S")] = Plain1

\* Where `crypto` is node's crypto module the round trip of C6 does hold.
RoundTripUnderNodeCrypto == crypto = "NodeCrypto" => C6_DecryptRoundTrip

\* C7 (as claimed): every "expired" event has initiated exactly one retry
\* cycle, also after earlier retries: with run_zookeeper() called once, the
\* runs started by the expired listeners are as many as the events emitted.
C7_OneRetryPerExpiry ==
    Len(rz) = 1 =>
        Cardinality({ r \in 1..Len(runs) : runs[r].origin = "expired" }) = zk.expired

\* C8: a getData completion with an error calls retry() once (one more run,
\* started for that fetch) and does not call parse_loaded_data: process.env
\* and the latest parse are as before.
C8_ErrorCompletionRetries ==
    [][ \A f \in 1..Len(fetches) :
          (fetches[f].read = "pending" /\ fetches'[f].read = "error")
          => /\ env' = env
             /\ last' = last
             /\ Len(runs') = Len(runs) + 1
             /\ runs'[Len(runs')].origin = "getData"
             /\ runs'[Len(runs')].src = f
             /\ fetches'[f].retryRun = Len(runs') ]_vars

\* a read has completed with an error after an earlier payload was parsed
C8_Witness ==
    \E f \in 1..Len(fetches) :
        /\ fetches[f].read = "error"
        /\ fetches[f].retryRun # 0
        /\ runs[fetches[f].retryRun].origin = "getData"
        /\ last.kind = "getData"

\* C9: a watch notification NODE_DATA_CHANGED makes exactly one new
\* fetch_config call, whose getData is issued (pending) with its watch.
C9_OneRefetchPerChange ==
    [][ \A f \in 1..Len(fetches) :
          (fetches[f].watch = "armed" /\ fetches'[f].watch = "NODE_DATA_CHANGED")
          => /\ Len(fetches') = Len(fetches) + 1
             /\ fetches'[Len(fetches')] =
                  [run |-> 0, read |-> "pending", resolved |-> FALSE,
                   watch |-> "none", retryRun |-> 0, client |-> instance.client,
                   cycle |-> zk.closes] ]_vars

\* a watch has delivered NODE_DATA_CHANGED and the refetch it made is there
C9_Witness ==
    \E f, g \in 1..Len(fetches) :
        /\ f < g
        /\ fetches[f].watch = "NODE_DATA_CHANGED"
        /\ fetches[g].run = 0

\* C10: no step removes an entry of process.env, and a step changes the
\* value of an entry only if the payload it parsed has a data line with
\* that key.
C10_EnvOnlyGrows ==
    [][ \A k \in DOMAIN env :
          /\ k \in DOMAIN env'
          /\ env'[k] # env[k] => k \in PayloadKeys(last'.data) ]_vars

\* B was written from an earlier payload; the latest payload has no line
\* for B, and B is still there
C10_Witness ==
    /\ last.kind = "getData"
    /\ Key("B") \notin PayloadKeys(last.data)
    /\ Key("A") \in PayloadKeys(last.data)
    /\ Key("B") \in DOMAIN env
    /\ env[Key("B")] = Str(<<"2">>)
    /\ env[Key("A")] = Str(<<"x">>)

\* C11 (as claimed): a session that has been closed is never connected
\* again: retry() connects a newly created handle, so connect() is never
\* called on a handle close() was called on.
C11_ClosedSessionNeverConnectedAgain == zk.reconnects = {}

\* C12 (as claimed): the promise of parse_loaded_data resolves also when the
\* payload made it throw, and so does the promise of the fetch_config whose
\* read delivered the payload.
C12_ParseFailureStillResolves ==
    /\ last.kind = "getData" => last.resolved
    /\ \A f \in 1..Len(fetches) : fetches[f].read = "ok" => fetches[f].resolved

\* C13: a read whose payload makes parse_loaded_data throw calls neither
\* retry() nor close(): runs, the session with its handlers and every other
\* fetch are as before, no entry of process.env is lost, and the line before
\* the failing one (A=x=y of BrokenPayload) is written.
C13_ParseFailureDoesNotRetry ==
    [][ \A f \in 1..Len(fetches) :
          (fetches[f].read = "pending" /\ fetches'[f].read = "ok" /\ ~last'.resolved)
          => /\ runs' = runs
             /\ zk' = zk
             /\ Len(fetches') = Len(fetches)
             /\ \A g \in 1..Len(fetches) : g # f => fetches'[g] = fetches[g]
             /\ fetches'[f].retryRun = 0
             /\ \A k \in DOMAIN env : k \in DOMAIN env'
             /\ last'.data = BrokenPayload
             /\ Key("A") \in DOMAIN env'
             /\ env'[Key("A")] = Str(<<"x">>) ]_vars

\* the broken payload was read while B held a value of an earlier payload:
\* the parse did not resolve, A is rewritten, B is kept, nothing was retried
C13_Witness ==
    /\ last.kind = "getData"
    /\ last.data = BrokenPayload
    /\ ~last.resolved
    /\ env[Key("A")] = Str(<<"x">>)
    /\ Key("B") \in DOMAIN env
    /\ zk.closes = 0
    /\ Len(runs) = 1

\* C14: every run() started by retry() connects after one more close() than
\* every run before it, and there are as many close() calls as retries.
C14_CloseBeforeConnect ==
    /\ \A r \in 1..Len(runs) :
         (runs[r].origin # "run_zookeeper" /\ runs[r].pc # "hung")
         => runs[r].closes =
              Cardinality({ q \in 1..r : runs[q].origin # "run_zookeeper" })
    /\ zk.closes =
         Cardinality({ r \in 1..Len(runs) : runs[r].origin # "run_zookeeper" })

\* two retry cycles have run: the second and third run() connected after
\* the first and the second close()
C14_Witness ==
    /\ Len(runs) >= 3
    /\ runs[2].origin # "run_zookeeper"
    /\ runs[3].origin # "run_zookeeper"
    /\ runs[2].closes = 1
    /\ runs[3].closes = 2
    /\ zk.state = "connecting"

\* C15: a "disconnected" or "error" event changes nothing but what the
\* client itself reports (its state, the event emitted): no run, fetch,
\* close, listener or environment entry is added or removed.
C15_DisconnectedAndErrorOnlyLog ==
    [][ (zk'.emitted \in {"disconnected", "error"} /\ zk'.emitted # zk.emitted)
        => /\ runs' = runs
           /\ fetches' = fetches
           /\ rz' = rz
           /\ instance' = instance
           /\ env' = env
           /\ last' = last
           /\ zk' = [zk EXCEPT !.emitted = zk'.emitted,
                               !.state = IF zk'.emitted = "disconnected"
                                         THEN "disconnected" ELSE @] ]_vars

\* an "error" event was handled after a "disconnected" one, with a watch
\* armed and a payload parsed
C15_Witness ==
    /\ zk.emitted = "error"
    /\ zk.state = "disconnected"
    /\ zk.closes = 0
    /\ Len(runs) = 1
    /\ \E f \in 1..Len(fetches) : fetches[f].watch = "armed"

\* C16 (as claimed): a run() whose connect() is never confirmed is followed
\* by a retry(): while run r waits for "connected", eventually either the
\* connection is confirmed or retry() starts a later run.
C16_UnconfirmedConnectRetries ==
    \A r \in 1..MaxRuns :
        (Len(runs) >= r /\ runs[r].pc = "connect")
        ~> (/\ Len(runs) >= r
            /\ \/ runs[r].pc # "connect"
               \/ \E q \in (r + 1)..Len(runs) : runs[q].origin # "run_zookeeper")

\* C17: every read that completed with an error has started a retry of its
\* own, whatever the number of reads that failed before it: the runs started
\* for failed reads are as many as the failed reads.
C17_EveryFailedReadRetries ==
    /\ Cardinality({ f \in 1..Len(fetches) : fetches[f].read = "error" })
         = Cardinality({ r \in 1..Len(runs) : runs[r].origin = "getData" })
    /\ \A f \in 1..Len(fetches) :
         fetches[f].read = "error"
         => /\ fetches[f].retryRun \in 1..Len(runs)
            /\ runs[fetches[f].retryRun].origin = "getData"
            /\ runs[fetches[f].retryRun].src = f
            /\ runs[fetches[f].retryRun].pc # "hung"

\* the read of the first cycle failed, its retry connected and read, and
\* that read failed too and was retried again
C17_Witness ==
    /\ Len(fetches) = 2
    /\ Len(runs) = 3
    /\ fetches[1].read = "error" /\ fetches[1].run = 1 /\ fetches[1].retryRun = 2
    /\ fetches[2].read = "error" /\ fetches[2].run = 2 /\ fetches[2].retryRun = 3
    /\ zk.closes = 2

\* C18: a callback of a getData issued before a close() takes effect like
\* any other when it is delivered after the close(): an error completion
\* closes and retries once more, a data completion is parsed into
\* process.env, a NODE_DATA_CHANGED notification issues a new getData.
C18_StaleCallbacksTakeEffect ==
    [][ \A f \in 1..Len(fetches) :
          zk.closes > fetches[f].cycle
          => /\ (fetches[f].read = "pending" /\ fetches'[f].read = "error")
                => /\ Len(runs') = Len(runs) + 1
                   /\ zk'.closes = zk.closes + 1
             /\ (fetches[f].read = "pending" /\ fetches'[f].read = "ok")
                => /\ last'.kind = "getData"
                   /\ Key("A") \in DOMAIN env'
                   /\ env'[Key("A")] = IF last'.data = BrokenPayload
                                       THEN Str(<<"x">>) ELSE Str(<<"1">>)
             /\ (fetches[f].watch = "armed" /\ fetches'[f].watch = "NODE_DATA_CHANGED")
                => /\ Len(fetches') = Len(fetches) + 1
                   /\ fetches'[Len(fetches')].read = "pending" ]_vars

\* the first getData was pending when "expired" made retry() close the
\* session (run 2); its error completion arrived afterwards and retried
\* again (run 3)
C18_Witness ==
    /\ Len(runs) >= 3
    /\ runs[2].origin = "expired"
    /\ fetches[1].read = "error"
    /\ fetches[1].cycle = 0
    /\ fetches[1].retryRun = 3
    /\ runs[3].closes = 2

\* C19: a watch notification of another kind than NODE_DATA_CHANGED issues
\* no getData; a new getData comes only from a NODE_DATA_CHANGED
\* notification or from a run() whose connect() was confirmed, and
\* process.env changes only while a getData is pending.
C19_OtherWatchEventsEndTheWatch ==
    [][ /\ \A f \in 1..Len(fetches) :
            (fetches[f].watch = "armed" /\ fetches'[f].watch = "NODE_DELETED")
            => /\ Len(fetches') = Len(fetches)
               /\ \A g \in 1..Len(fetches) : g # f => fetches'[g] = fetches[g]
               /\ runs' = runs
               /\ zk' = zk
               /\ env' = env
        /\ Len(fetches') > Len(fetches)
           => \/ \E f \in 1..Len(fetches) :
                   fetches[f].watch = "armed" /\ fetches'[f].watch = "NODE_DATA_CHANGED"
              \/ \E r \in 1..Len(runs) : runs[r].pc = "connect" /\ runs'[r].pc = "fetch"
        /\ (\A f \in 1..Len(fetches) : fetches[f].read # "pending") => env' = env ]_vars

\* the only watch has fired with NODE_DELETED after the payload was parsed:
\* nothing is pending or armed any more
C19_Witness ==
    /\ Len(fetches) = 1
    /\ fetches[1].read = "ok"
    /\ fetches[1].watch = "NODE_DELETED"
    /\ last.kind = "getData"
    /\ zk.closes = 0

\* C20 (as claimed): a registered instance holds a session: a construction
\* that throws leaves no instance registered.
C20_RegisteredInstanceHasSession ==
    instance.exists => instance.client # 0

=============================================================================
